---- MODULE Spec2Model ----
(***************************************************************************)
(* Model of pystan/_chains.pyx: the kept-sample extractor, the effective   *)
(* sample size (ESS) and the split potential scale reduction (split R-hat) *)
(* of one parameter of a simulation.                                       *)
(*                                                                         *)
(* C doubles are modelled as exact rationals <<num, den>> (den > 0, lowest *)
(* terms); rounding is not modelled.  A Cython division of C numbers with  *)
(* a zero divisor raises ZeroDivisionError (cdivision is off), which is    *)
(* the outcome "error" here.  Sequences are 1-based: chain k of the code   *)
(* is chain k+1 here and lag t is entry t+1.                               *)
(***************************************************************************)
EXTENDS Integers, Sequences, FiniteSets, TLC

VARIABLES sim, samples, call, ess, srhat

vars == <<sim, samples, call, ess, srhat>>

\* ---------------------------------------------------------------- bounds
\* chains and parameters of a simulation, warmup draws of a chain, stored
\* draws of a simulation in all (parameters x chains x n_save), draw values
MaxChains == 2
MaxParams == 1
MaxWarmup == 1
MaxTotal == 6
DrawValues == {0, 1}

\* ------------------------------------------------------ double arithmetic
Abs(x) == IF x < 0 THEN -x ELSE x

RECURSIVE GCD(_, _)
GCD(a, b) == IF b = 0 THEN a ELSE GCD(b, a % b)

Rat(n, d) ==
    LET s == IF d < 0 THEN -1 ELSE 1
        g == GCD(Abs(n), Abs(d))
    IN  <<(s * n) \div g, (s * d) \div g>>

Zero == <<0, 1>>
One == <<1, 1>>
FromInt(i) == <<i, 1>>

RAdd(a, b) == Rat(a[1] * b[2] + b[1] * a[2], a[2] * b[2])
RSub(a, b) == Rat(a[1] * b[2] - b[1] * a[2], a[2] * b[2])
RMul(a, b) == Rat(a[1] * b[1], a[2] * b[2])
\* the quotient of two doubles; the callers test the divisor first
RDiv(a, b) == IF b[1] = 0 THEN Zero ELSE Rat(a[1] * b[2], a[2] * b[1])
RLess(a, b) == a[1] * b[2] < b[1] * a[2]
RGeq(a, b) == ~RLess(a, b)

\* Cython's test before a C division: a zero divisor raises
ZeroDivisionNever(d) == FALSE
ZeroDivision(d) == d[1] = 0

\* ------------------------------------------------- statistical primitives
RECURSIVE sum(_)
sum(x) == IF Len(x) = 0 THEN Zero ELSE RAdd(x[1], sum(Tail(x)))

\* defined for a non-empty sequence
mean(x) == RDiv(sum(x), FromInt(Len(x)))

\* sample variance, denominator size - 1; 0 for a single value
variance(x) ==
    IF Len(x) = 1 THEN Zero
    ELSE LET mu == mean(x)
             sq == [i \in 1..Len(x) |-> RMul(RSub(x[i], mu), RSub(x[i], mu))]
         IN  RDiv(sum(sq), FromInt(Len(x) - 1))

\* biased sample autocovariance at lags 0 .. size-1 (denominator size)
stan_autocovariance(y) ==
    LET L == Len(y)
        mu == mean(y)
        c == [i \in 1..L |-> RSub(y[i], mu)]
    IN  [t \in 1..L |->
            RDiv(sum([i \in 1..(L - (t - 1)) |-> RMul(c[i], c[i + t - 1])]),
                 FromInt(L))]

\* --------------------------------------------------------------- inputs
RECURSIVE IntSum(_)
IntSum(x) == IF Len(x) = 0 THEN 0 ELSE x[1] + IntSum(Tail(x))

\* the draws of chain k, parameter p, cut from a flat vector of all draws
Slice(flat, ns, P, k, p) ==
    LET off == P * IntSum(SubSeq(ns, 1, k - 1)) + (p - 1) * ns[k]
    IN  [i \in 1..ns[k] |-> FromInt(flat[off + i])]

MakeSim(m, P, ns, ws, flat) ==
    [chains |-> m, n_save |-> ns, warmup2 |-> ws,
     samples |-> [k \in 1..m |-> [p \in 1..P |-> Slice(flat, ns, P, k, p)]]]

\* the simulations of the model: up to MaxChains chains and MaxParams
\* parameters, at most MaxTotal stored draws in all, warmup2[k] <= n_save[k]
Shapes(m, P) == { n \in [1..m -> 0..MaxTotal] : P * IntSum(n) <= MaxTotal }
Warmups(m, ns) == { w \in [1..m -> 0..MaxWarmup] : \A k \in 1..m : w[k] <= ns[k] }

\* the two-chain example: kept samples 1..5 and 5..1 after five warmup draws
ExampleSim ==
    [chains |-> 2, n_save |-> <<10, 10>>, warmup2 |-> <<5, 5>>,
     samples |-> << << [i \in 1..10 |-> FromInt(IF i <= 5 THEN 0 ELSE i - 5)] >>,
                    << [i \in 1..10 |-> FromInt(IF i <= 5 THEN 0 ELSE 11 - i)] >> >>]

\* one chain of 16 kept draws (after one warmup draw) whose rho_hat is
\* non-negative at lags 0..4, negative at lag 5 and non-negative again at lag 15
TruncationSim ==
    [chains |-> 1, n_save |-> <<17>>, warmup2 |-> <<1>>,
     samples |-> << << [i \in 1..17 |->
                          FromInt(IF i = 1 \/ (i >= 3 /\ i <= 11) THEN 1 ELSE 0)] >> >>]

NumParams(s) == Len(s.samples[1])

\* ------------------------------------------------------ sample extractor
\* samples.clear(), then the draws from offset warmup2[k] to the end
get_kept_samples_noclear(s, k, n, old) ==
    LET nv == s.samples[k][n]
    IN  old \o [i \in 1..(Len(nv) - s.warmup2[k]) |-> nv[s.warmup2[k] + i]]
get_kept_samples(s, k, n, old) ==
    LET nv == s.samples[k][n]
    IN  [i \in 1..(Len(nv) - s.warmup2[k]) |-> nv[s.warmup2[k] + i]]

\* kept draws of chain k, parameter n, read through a fresh buffer
Kept(s, k, n) == get_kept_samples(s, k, n, <<>>)

\* the mean of the kept draws.  With no kept draw the division fails; the
\* caller then fails at its own division by n_samples = 0 at the latest
get_chain_mean(s, k, n) ==
    LET nv == Kept(s, k, n)
    IN  IF Len(nv) = 0 THEN Zero ELSE RDiv(sum(nv), FromInt(Len(nv)))

autocovariance(s, k, n) == stan_autocovariance(Kept(s, k, n))

\* ------------------------------------------------- effective sample size
ns_kept(s) == [k \in 1..s.chains |-> s.n_save[k] - s.warmup2[k]]

RECURSIVE SeqMin(_)
SeqMin(x) == IF Len(x) = 1 THEN x[1]
             ELSE LET r == SeqMin(Tail(x)) IN IF x[1] <= r THEN x[1] ELSE r

\* n_samples = min(ns_kept)
MinKept(s) == SeqMin(ns_kept(s))

\* acov[k] for every chain k
Acov(s, n) == [k \in 1..s.chains |-> autocovariance(s, k, n)]

\* chain_var[k] = acov[k][0] * n_kept / (n_kept - 1)
ChainVarSquared(acov0, nk) ==
    RDiv(RMul(acov0, FromInt(nk * nk)), FromInt((nk - 1) * (nk - 1)))
ChainVar(acov0, nk) == RDiv(RMul(acov0, FromInt(nk)), FromInt(nk - 1))

\* mean_var = mean(chain_var)
MeanVarFirstLen(s, acov) ==
    mean([k \in 1..s.chains |-> ChainVar(acov[k][1], ns_kept(s)[1])])
MeanVar(s, acov) ==
    mean([k \in 1..s.chains |-> ChainVar(acov[k][1], ns_kept(s)[k])])

\* var_plus = mean_var * (n_samples - 1) / n_samples, plus the variance of the
\* chain means when there is more than one chain
VarPlus(s, n, mean_var) ==
    LET N == MinKept(s)
        w == RDiv(RMul(mean_var, FromInt(N - 1)), FromInt(N))
    IN  IF s.chains > 1
        THEN RAdd(w, variance([k \in 1..s.chains |-> get_chain_mean(s, k, n)]))
        ELSE w

\* rho_hat at lag t: 1 - (mean_var - mean(acov_t)) / var_plus
RhoHat(acov, mean_var, var_plus, t) ==
    RSub(One, RDiv(RSub(mean_var, mean([k \in 1..Len(acov) |-> acov[k][t + 1]])),
                   var_plus))

\* the condition of the while loop over the lags
LagScanGuardNoSign(t, N, rho_hat) == t < N
LagScanGuard(t, N, rho_hat) == t < N /\ RGeq(rho_hat, Zero)

\* if rho_hat >= 0: rho_hat_t.push_back(rho_hat)
PushRhoAlways(acc, rho_hat) == Append(acc, rho_hat)
PushRho(acc, rho_hat) == IF RGeq(rho_hat, Zero) THEN Append(acc, rho_hat) ELSE acc

\* the while loop: state (t, rho_hat, rho_hat_t), ended by the guard or by the
\* division error of a zero var_plus
RECURSIVE LagScan(_, _, _, _, _, _, _)
LagScan(N, acov, mean_var, var_plus, t, rho_hat, acc) ==
    IF LagScanGuard(t, N, rho_hat)
    THEN IF ZeroDivision(var_plus)
         THEN [st |-> "error", t |-> t, rho_hat_t |-> acc]
         ELSE LET r == RhoHat(acov, mean_var, var_plus, t)
              IN  LagScan(N, acov, mean_var, var_plus, t + 1, r, PushRho(acc, r))
    ELSE [st |-> "ok", t |-> t, rho_hat_t |-> acc]

\* 1 + 2 * sum(rho_hat_t), the divisor of m * n_samples
EssDivisorNoOne(rho_hat_t) == RMul(FromInt(2), sum(rho_hat_t))
EssDivisor(rho_hat_t) == RAdd(One, RMul(FromInt(2), sum(rho_hat_t)))

\* the outcome of a call: st is "ok" (val is returned) or "error" (raised)
EssError == [st |-> "error", val |-> Zero, rho_hat_t |-> <<>>, t |-> 0]

effective_sample_size(s, n) ==
    LET m == s.chains
        N == MinKept(s)
    IN  IF \E k \in 1..m : ZeroDivision(FromInt(ns_kept(s)[k] - 1)) THEN EssError
        ELSE IF ZeroDivision(FromInt(N)) THEN EssError
        ELSE LET acov == Acov(s, n)
                 mean_var == MeanVar(s, acov)
                 var_plus == VarPlus(s, n, mean_var)
                 scan == LagScan(N, acov, mean_var, var_plus, 0, Zero, <<>>)
                 div == EssDivisor(scan.rho_hat_t)
             IN  IF scan.st = "error" THEN EssError
                 ELSE IF Len(scan.rho_hat_t) > 0
                 THEN IF ZeroDivision(div) THEN EssError
                      ELSE [st |-> "ok", val |-> RDiv(FromInt(m * N), div),
                            rho_hat_t |-> scan.rho_hat_t, t |-> scan.t]
                 ELSE [st |-> "ok", val |-> FromInt(m * N),
                       rho_hat_t |-> scan.rho_hat_t, t |-> scan.t]

\* ------------------------------------------ split potential scale reduction
\* if n_samples % 2 == 1: n_samples = n_samples - 1
EvenSamplesKeep(N) == N
EvenSamples(N) == IF N % 2 = 1 THEN N - 1 ELSE N

\* the loop over the chains: split_chain is cleared between the two halves of
\* a chain only, so it enters chain k holding the second half of chain k-1.
\* The result lists the content of split_chain at each mean/variance call.
RECURSIVE SplitLoop(_, _, _, _, _, _)
SplitLoop(s, n, N, chain, split_chain, out) ==
    IF chain > s.chains THEN out
    ELSE LET smp == get_kept_samples(s, chain, n, <<>>)
             first == split_chain \o SubSeq(smp, 1, N \div 2)
             second == SubSeq(smp, (N \div 2) + 1, N)
         IN  SplitLoop(s, n, N, chain + 1, second, out \o <<first, second>>)

RhatError(N, splits) ==
    [st |-> "error", sq |-> Zero, n_samples |-> N, splits |-> splits]

\* sq is the argument of the final sqrt (the square of the value returned)
split_potential_scale_reduction(s, n) ==
    LET N == EvenSamples(MinKept(s))
        h == N \div 2
    IN  IF h = 0 THEN RhatError(N, <<>>)   \* mean of an empty split_chain
        ELSE LET splits == SplitLoop(s, n, N, 1, <<>>, <<>>)
                 split_chain_mean == [i \in 1..Len(splits) |-> mean(splits[i])]
                 split_chain_var == [i \in 1..Len(splits) |-> variance(splits[i])]
                 var_between == RMul(FromInt(h), variance(split_chain_mean))
                 var_within == mean(split_chain_var)
             IN  IF ZeroDivision(var_within) \/ ZeroDivision(FromInt(h))
                 THEN RhatError(N, splits)
                 ELSE [st |-> "ok",
                       sq |-> RDiv(RAdd(RDiv(var_between, var_within), FromInt(h - 1)),
                                   FromInt(h)),
                       n_samples |-> N, splits |-> splits]

\* ------------------------------------------------------------ the machine
None == [st |-> "none"]
NoCall == [k |-> 0, n |-> 0, before |-> <<>>, sim |-> <<>>]

Init ==
    /\ \/ \E m \in 1..MaxChains, P \in 1..MaxParams :
             \E ns \in Shapes(m, P) :
               \E ws \in Warmups(m, ns), flat \in [1..(P * IntSum(ns)) -> DrawValues] :
                 sim = MakeSim(m, P, ns, ws, flat)
       \/ sim = ExampleSim
       \/ sim = TruncationSim
    /\ samples = <<>>
    /\ call = NoCall
    /\ ess = None
    /\ srhat = None

\* get_kept_samples(sim, k, n, samples) on the buffer as it stands; call keeps
\* the arguments, the buffer and the simulation as they were before the call
CallGetKeptSamples(k, n) ==
    /\ samples' = get_kept_samples(sim, k, n, samples)
    /\ call' = [k |-> k, n |-> n, before |-> samples, sim |-> sim]
    /\ UNCHANGED <<sim, ess, srhat>>

CallEss(n) ==
    /\ ess' = [n |-> n] @@ effective_sample_size(sim, n)
    /\ UNCHANGED <<sim, samples, call, srhat>>

CallRhat(n) ==
    /\ srhat' = [n |-> n] @@ split_potential_scale_reduction(sim, n)
    /\ UNCHANGED <<sim, samples, call, ess>>

NextKept == \E k \in 1..sim.chains, n \in 1..NumParams(sim) : CallGetKeptSamples(k, n)
NextEss == \E n \in 1..NumParams(sim) : CallEss(n)
NextRhat == \E n \in 1..NumParams(sim) : CallRhat(n)
\* the two public entry points; get_kept_samples is internal to the module
Next == NextEss \/ NextRhat

SpecKept == Init /\ [][NextKept]_vars
SpecEss == Init /\ [][NextEss]_vars
SpecRhat == Init /\ [][NextRhat]_vars
Spec == Init /\ [][Next]_vars

\* ------------------------------------------------------------- properties
\* a valid simulation for the diagnostics: every chain keeps at least 2 draws
ValidSim == \A k \in 1..sim.chains : ns_kept(sim)[k] >= 2

\* var_plus and rho_hat at the lags 0 .. N-1 (entry t+1 is lag t) of one
\* call of effective_sample_size, recomputed from the simulation
VarPlusOf(n) == VarPlus(sim, n, MeanVar(sim, Acov(sim, n)))

RhoHats(n) ==
    LET acov == Acov(sim, n)
        mean_var == MeanVar(sim, acov)
        var_plus == VarPlus(sim, n, mean_var)
    IN  [i \in 1..MinKept(sim) |-> RhoHat(acov, mean_var, var_plus, i - 1)]

\* the smallest lag with a negative rho_hat, or the number of lags
FirstNegativeLag(rho) ==
    LET neg == { i \in 1..Len(rho) : RLess(rho[i], Zero) }
    IN  IF neg = {} THEN Len(rho) ELSE (CHOOSE i \in neg : \A u \in neg : i <= u) - 1

\* C1: the 2m mean/variance pairs of split R-hat are computed over chain k's
\* kept samples [0, N/2) and [N/2, N), for every chain k
C1_SplitsAreChainHalves ==
    (srhat.st # "none" /\ srhat.n_samples >= 2) =>
        LET h == srhat.n_samples \div 2
        IN  /\ Len(srhat.splits) = 2 * sim.chains
            /\ \A k \in 1..sim.chains :
                 LET kept == Kept(sim, k, srhat.n)
                 IN  /\ srhat.splits[2 * k - 1] = SubSeq(kept, 1, h)
                     /\ srhat.splits[2 * k] = SubSeq(kept, h + 1, 2 * h)

\* C2: the lag scan accumulates rho_hat(t) for exactly the lags before the
\* first negative one (all N lags if none is negative) and evaluates none after
C2_ScanStopsAtFirstNegative ==
    ess.st = "ok" =>
        LET rho == RhoHats(ess.n)
            T == FirstNegativeLag(rho)
        IN  /\ ess.rho_hat_t = SubSeq(rho, 1, T)
            /\ ess.t = IF T < Len(rho) THEN T + 1 ELSE Len(rho)

C2_Witness ==
    /\ ess.st = "ok"
    /\ Len(ess.rho_hat_t) = 5
    /\ LET rho == RhoHats(ess.n)
       IN  /\ FirstNegativeLag(rho) = 5
           /\ \E i \in 7..Len(rho) : RGeq(rho[i], Zero)

\* C3: effective_sample_size is the same for every permutation of the chains
ChainOrders(m) == { f \in [1..m -> 1..m] : \A i, j \in 1..m : f[i] = f[j] => i = j }

PermuteSim(s, f) ==
    [chains |-> s.chains,
     n_save |-> [k \in 1..s.chains |-> s.n_save[f[k]]],
     warmup2 |-> [k \in 1..s.chains |-> s.warmup2[f[k]]],
     samples |-> [k \in 1..s.chains |-> s.samples[f[k]]]]

C3_ChainOrderInvariant ==
    ess.st # "none" =>
        \A f \in ChainOrders(sim.chains) :
            LET r == effective_sample_size(PermuteSim(sim, f), ess.n)
            IN  r.st = ess.st /\ r.val = ess.val

C3_Witness ==
    /\ ess.st = "ok"
    /\ sim.chains >= 2
    /\ ns_kept(sim)[1] # ns_kept(sim)[2]
    /\ RLess(Zero, VarPlusOf(ess.n))

\* C4: with an odd minimum kept length N, split R-hat equals its value on the
\* simulation whose chains are cut to their first N-1 kept draws
Truncate(s, len) ==
    [chains |-> s.chains,
     n_save |-> [k \in 1..s.chains |-> s.warmup2[k] + len],
     warmup2 |-> s.warmup2,
     samples |-> [k \in 1..s.chains |->
                    [p \in 1..NumParams(s) |->
                        SubSeq(s.samples[k][p], 1, s.warmup2[k] + len)]]]

C4_OddLengthDropsLastDraw ==
    (srhat.st # "none" /\ MinKept(sim) % 2 = 1) =>
        LET r == split_potential_scale_reduction(Truncate(sim, MinKept(sim) - 1), srhat.n)
        IN  r.st = srhat.st /\ r.sq = srhat.sq

C4_Witness ==
    /\ srhat.st = "ok"
    /\ MinKept(sim) % 2 = 1
    /\ MinKept(sim) >= 5
    /\ LET kept == Kept(sim, 1, srhat.n) IN kept[Len(kept)] # kept[Len(kept) - 1]

\* C5: one chain whose kept draws are all the same value: both diagnostics
\* raise, neither returns a number
ConstantSingleChain(n) ==
    /\ sim.chains = 1
    /\ ValidSim
    /\ \A i \in 1..Len(Kept(sim, 1, n)) : Kept(sim, 1, n)[i] = Kept(sim, 1, n)[1]

C5_ConstantChainRaises ==
    /\ (ess.st # "none" /\ ConstantSingleChain(ess.n)) => ess.st = "error"
    /\ (srhat.st # "none" /\ ConstantSingleChain(srhat.n)) => srhat.st = "error"

C5_Witness ==
    /\ ess.st = "error"
    /\ srhat.st = "error"
    /\ ess.n = srhat.n
    /\ ConstantSingleChain(ess.n)
    /\ MinKept(sim) >= 4
    /\ Kept(sim, 1, ess.n)[1] = One

\* C6: split R-hat raises whenever the minimum kept length is below 4
C6_ShortChainsRaise ==
    (srhat.st # "none" /\ MinKept(sim) < 4) => srhat.st = "error"

\* C7 as stated: rho_hat(0) = 1 whenever var_plus > 0
C7_RhoHatZeroIsOne ==
    (ess.st # "none" /\ ValidSim /\ RLess(Zero, VarPlusOf(ess.n))) =>
        RhoHats(ess.n)[1] = One

\* C7 amended: with var_plus > 0, rho_hat(0) lies in [0, 1] and is 1 only when
\* the lag-0 autocovariance of every chain is 0; it is the first value summed,
\* so the accumulated sum is never empty
C7_RhoHatZeroInUnitInterval ==
    (ess.st # "none" /\ ValidSim /\ RLess(Zero, VarPlusOf(ess.n))) =>
        LET r0 == RhoHats(ess.n)[1]
        IN  /\ RGeq(r0, Zero)
            /\ RGeq(One, r0)
            /\ (r0 = One) <=> (\A k \in 1..sim.chains : Acov(sim, ess.n)[k][1] = Zero)
            /\ Len(ess.rho_hat_t) >= 1
            /\ ess.rho_hat_t[1] = r0

C7_Witness ==
    /\ ess.st = "ok"
    /\ ValidSim
    /\ RLess(Zero, VarPlusOf(ess.n))
    /\ RLess(Zero, RhoHats(ess.n)[1])
    /\ RLess(RhoHats(ess.n)[1], One)

\* C8: with at least 2 kept draws in every chain and var_plus > 0,
\* effective_sample_size returns a non-negative value and its divisor
\* 1 + 2 * sum(rho_hat_t) is positive
C8_ReturnsNonNegative ==
    (ess.st # "none" /\ ValidSim /\ RLess(Zero, VarPlusOf(ess.n))) =>
        /\ ess.st = "ok"
        /\ RGeq(ess.val, Zero)
        /\ RLess(Zero, EssDivisor(ess.rho_hat_t))

C8_Witness ==
    /\ ess.st = "ok"
    /\ ValidSim
    /\ sim.chains >= 2
    /\ RLess(Zero, VarPlusOf(ess.n))
    /\ LET rho == RhoHats(ess.n)
       IN  /\ FirstNegativeLag(rho) < Len(rho)
           /\ RLess(rho[FirstNegativeLag(rho) + 1], FromInt(-1))

\* C9: a returned effective sample size is at most m * N; on the two-chain
\* example it is positive and at most 10
C9_AtMostTotalDraws ==
    ess.st = "ok" =>
        /\ RGeq(FromInt(sim.chains * MinKept(sim)), ess.val)
        /\ sim = ExampleSim => (RLess(Zero, ess.val) /\ RGeq(FromInt(10), ess.val))

C9_Witness ==
    /\ sim = ExampleSim
    /\ ess.st = "ok"
    /\ RLess(Zero, ess.val)
    /\ RLess(ess.val, FromInt(10))

\* C10: after get_kept_samples the buffer holds the draws of chain k,
\* parameter n from offset warmup2[k] to the end, whatever it held before,
\* and the simulation is as it was before the call
C10_BufferIsKeptSuffix ==
    call # NoCall =>
        LET k == call.k
            nv == sim.samples[k][call.n]
        IN  /\ Len(samples) = sim.n_save[k] - sim.warmup2[k]
            /\ \A i \in 1..Len(samples) : samples[i] = nv[sim.warmup2[k] + i]
            /\ sim = call.sim

C10_Witness ==
    /\ call # NoCall
    /\ call.before # <<>>
    /\ call.before # samples
    /\ sim.warmup2[call.k] > 0
    /\ Len(samples) >= 2
    /\ samples[1] # sim.samples[call.k][call.n][1]
====
